---- MODULE Spec2Model ----
(***************************************************************************)
(* The speech delivery engine of SpokenSense: class CoquiTTS of            *)
(* src/tts/coqui_tts.py.                                                   *)
(*                                                                         *)
(* One engine object is modelled together with the threads that act on it: *)
(* the caller (GUI) thread, which runs the control methods speak, pause,   *)
(* resume and stop one call at a time, and for every speak() call that     *)
(* passed the input checks the playback worker thread (the consumer,       *)
(* _playback_worker) and, for texts of more than one chunk, the            *)
(* preprocessing thread (the producer, _preprocess_remaining_chunks).      *)
(* Threads are never joined by the code, so the threads of an earlier      *)
(* speak() go on running beside those of a later one; they are indexed by  *)
(* the number of the speak() call (the session) that started them.         *)
(*                                                                         *)
(* Granularity.  A step is one test or one statement that reads or writes  *)
(* a field of the engine, the queue or the audio device; statements on     *)
(* locals are folded into the step before them, and a run of consecutive   *)
(* assignments to the engine's fields by one method (lines 246-248,        *)
(* 175-181, 186-187, 322-323) is one step.                                 *)
(*                                                                         *)
(* Abstractions.  A text is represented by the number of chunks speak()    *)
(* makes of it (0: at most 500 characters, text_chunks = None); a chunk of *)
(* text by the pair <<session, index>> that identifies it; the audio       *)
(* synthesized from a chunk by the same pair.  Every chunk has Words       *)
(* words.  Wall-clock time is not modelled: whether the elapsed time has   *)
(* reached the next word's offset, whether a queue.get on an empty queue   *)
(* times out, and when the device finishes a buffer are nondeterministic.  *)
(*                                                                         *)
(* History.  The properties speak of what has happened (the chunks         *)
(* started so far, the last word event, a stop() that has returned); the   *)
(* history variables record it.  A run has one observer, fixed in its      *)
(* initial state, that says which of them are recorded; there is one       *)
(* specification per observer.                                             *)
(*                                                                         *)
(* Pure functions.  The timing estimator (_estimate_word_timings), the      *)
(* chunking of speak() and the preprocessing of a chunk's text are         *)
(* operators, each with a specification of its own whose initial states    *)
(* are the calls and whose step is the call's return.  The sync loop of a  *)
(* chunk has a specification with its clock, one step per poll.            *)
(***************************************************************************)
EXTENDS Integers, Sequences, FiniteSets

\* Number of speak() calls with non-blank text in a run.
MaxSessions == 2
\* Largest number of chunks speak() makes of one text.
MaxChunks == 3
\* Number of whitespace-delimited words of every chunk.
Words == 2
\* Number of control method calls the caller makes in a run.
MaxCalls == 3
\* Number of chunks synthesized and played in a run, over all its sessions
\* (a text that is not cut counts as one chunk).
MaxTotalChunks == 3
\* Largest number of words of a text the timing estimator is called with.
MaxTimedWords == 3
\* Largest number of characters of such a word.
MaxWordLen == 3
\* Longest audio the timing estimator is called with, in tenths of a second.
MaxTenths == 4
\* Largest number of tokens of a text the chunking of speak() is called with.
MaxTokens == 5
\* Largest number of word timings a sync loop is run with.
MaxSyncWords == 2
\* Largest word timing and longest audio of such a run, in clock ticks; two
\* polls of the loop are at least one tick apart (the sleep of line 449).
MaxOffset == 6
MaxDuration == 2
\* The grace period of line 452 (1.0 s), in clock ticks.
GraceTicks == 2
\* Longest time between two polls of a sync loop, in clock ticks.
MaxStep == 2
\* Largest number of characters of a chunk text that is preprocessed.
MaxChars == 5

Sessions == 1..MaxSessions

\* current_text = "" (coqui_tts.py:75) and "no audio".
NoText == <<0, 0>>
\* text_chunks = None (coqui_tts.py:77, 180); n is len(text_chunks).
NoChunks == [sid |-> 0, n |-> 0]

VARIABLES
    tts,                  \* TRUE iff self.tts is an engine (not None)
    is_playing,
    is_paused,
    stopped,
    audio_queue,          \* queue.Queue of (wav, processed_text)
    text_chunks,          \* [sid, n]: the n chunks of session sid's text
    current_text,         \* the chunk <<sid, idx>> it holds
    current_chunk_index,
    device,               \* sounddevice: the buffer being played, or NoText
    caller,               \* the caller thread: position in a control method
    prod,                 \* prod[s]: preprocessing thread of session s
    cons,                 \* cons[s]: playback worker thread of session s
    nsess,                \* number of sessions started so far
    nchunks,              \* number of chunks of the sessions started so far
    ncalls,               \* number of control method calls made so far
    observe,              \* the observer of a run: what its history records
    calc,                 \* the call of a pure function of the engine, if any
    \* ---- history variables: written, never read, by the actions ----
    call,                 \* the control method called last
    highest,              \* highest index of the chunks of this session started
    synth_failed,         \* a synthesis call failed since the last speak()
    interrupted,          \* the chunk whose sync loop a pause() found running
    last_word,            \* the last word_signal of this session: [by, idx]
    after_stop,           \* a stop() has returned and no speak() was called since
    words_after_stop,     \* word events emitted while after_stop (capped at 2)
    synthesized,          \* the chunks of this session tts.tts() was called for
    succeeded,            \* those for which a call of tts.tts() returned audio
    played,               \* the chunks of this session started on the device
    raised,               \* sd.play or sd.wait raised in this session
    last_op               \* the last operation on the device: "play" or "halt"

engine == <<tts, is_playing, is_paused, stopped, audio_queue, text_chunks,
            current_text, current_chunk_index>>
threads == <<prod, cons, nsess, nchunks, ncalls>>
\* What no step of the engine's threads changes.
fixed == <<observe, calc>>
later == <<synthesized, succeeded, played, raised, last_op>>
recorded == <<call, highest, synth_failed, interrupted, last_word,
              after_stop, words_after_stop, later>>
history == <<fixed, recorded>>
vars == <<engine, device, caller, threads, history>>

IdleCaller == [pc |-> "idle", ret |-> "idle", n |-> 0]
NoProducer == [pc |-> "none", idx |-> 0, len |-> 0, txt |-> NoText]
NoConsumer == [pc |-> "none", phase |-> 0, txt |-> NoText, cwi |-> 0]
NoWord == [by |-> 0, idx |-> 0]
NoInterrupt == [txt |-> NoText, k |-> 0, left |-> FALSE]

(***************************************************************************)
(* The pure functions of the engine.  A run of one of them has the call in *)
(* calc: the function, its arguments and, once it has returned, its        *)
(* result.  The floating point numbers of the code are exact rationals     *)
(* here; a word is represented by its number of characters.                *)
(***************************************************************************)

\* No pure function is called: the run is one of the engine's threads.
NoCalc == [fn |-> "none"]

RECURSIVE GCD(_, _)
GCD(a, b) == IF b = 0 THEN a ELSE GCD(b, a % b)

\* The rational n/d (d > 0), in lowest terms.
Rat(n, d) ==
    LET g == GCD(IF n < 0 THEN -n ELSE n, d)
    IN  [n |-> n \div g, d |-> d \div g]

Zero == Rat(0, 1)
RatAdd(a, b) == Rat(a.n * b.d + b.n * a.d, a.d * b.d)
RatMul(a, b) == Rat(a.n * b.n, a.d * b.d)
RatDiv(a, b) == Rat(a.n * b.d, a.d * b.n)
RatLess(a, b) == a.n * b.d < b.n * a.d

\* _estimate_word_timings, line 378.
sample_rate == 22050

\* _estimate_word_timings, line 395: the gap of 0.05 s after a word.
word_gap == Rat(1, 20)

\* _estimate_word_timings, line 381: sum(len(word) for word in words).
RECURSIVE total_chars(_)
total_chars(words) ==
    IF words = <<>> THEN 0 ELSE Head(words) + total_chars(Tail(words))

\* _estimate_word_timings, lines 390-395: the loop over the words, from
\* current_time on; it yields word_timings and the last current_time.
RECURSIVE word_timings(_, _, _)
word_timings(words, time_per_char, current_time) ==
    IF words = <<>>
      THEN [timings |-> <<>>, current_time |-> current_time]
      ELSE LET rest == word_timings(Tail(words), time_per_char,
                          RatAdd(current_time,
                                 RatAdd(RatMul(Rat(Head(words), 1), time_per_char),
                                        word_gap)))
           IN  [timings |-> <<current_time>> \o rest.timings,
                current_time |-> rest.current_time]

\* _estimate_word_timings without the scaling of lines 399-404.
normalize_skipped(timings, current_time, duration) == timings

\* _estimate_word_timings, lines 399-404: the timings are scaled by
\* audio_duration_seconds / current_time when current_time exceeds it.
normalize(timings, current_time, duration) ==
    IF timings # <<>> /\ RatLess(duration, current_time) /\ RatLess(Zero, current_time)
      THEN [i \in DOMAIN timings |->
              RatMul(timings[i], RatDiv(duration, current_time))]
      ELSE timings

\* _estimate_word_timings(text, audio_length_samples), words = text.split().
estimate_word_timings(words, audio_length_samples) ==
    IF words = <<>> THEN <<>>
    ELSE LET audio_duration_seconds == Rat(audio_length_samples, sample_rate)
         IN  IF total_chars(words) = 0
               THEN [i \in DOMAIN words |-> Zero]
               ELSE LET time_per_char == RatDiv(audio_duration_seconds,
                                                Rat(total_chars(words), 1))
                        loop == word_timings(words, time_per_char, Zero)
                    IN  normalize(loop.timings, loop.current_time,
                                  audio_duration_seconds)

\* The texts the estimator is called with: up to MaxTimedWords words of up
\* to MaxWordLen characters.
TimedTexts ==
    UNION {[1..n -> 1..MaxWordLen] : n \in 1..MaxTimedWords}

\* The audio lengths it is called with: 0.1 s to MaxTenths * 0.1 s.
AudioLengths == {k * (sample_rate \div 10) : k \in 1..MaxTenths}

TimingCalls ==
    {[fn |-> "timings", words |-> w, samples |-> n, out |-> <<>>, done |-> FALSE] :
        w \in TimedTexts, n \in AudioLengths}

\* speak, line 155.
max_chunk_size == 500

\* speak, line 160: width = max_chunk_size // 2.
width == max_chunk_size \div 2

\* The token lengths of the texts that are cut: short tokens, and tokens
\* around the width of a line and around max_chunk_size.
TokenLens == {1, 99, width - 1, width, width + 1, max_chunk_size, max_chunk_size + 1}

\* A text is its tokens, one space between two of them; a token is its
\* position in the text and its number of characters.
Tokens(text) == [i \in DOMAIN text |-> [tok |-> i, len |-> text[i]]]

\* len() of tokens joined by single spaces.
RECURSIVE joined_len(_)
joined_len(tokens) ==
    IF tokens = <<>> THEN 0
    ELSE Head(tokens).len + (IF Tail(tokens) = <<>> THEN 0 ELSE 1)
            + joined_len(Tail(tokens))

\* speak, line 160: textwrap.wrap(text, width, break_long_words=False,
\* break_on_hyphens=False): a line takes the next token while it fits in
\* width; a token longer than width is a line of its own.
RECURSIVE wrap(_, _, _)
wrap(tokens, cur_line, lines) ==
    IF tokens = <<>>
      THEN IF cur_line = <<>> THEN lines ELSE Append(lines, cur_line)
      ELSE IF cur_line = <<>>
        THEN IF Head(tokens).len > width
               THEN wrap(Tail(tokens), <<>>, Append(lines, <<Head(tokens)>>))
               ELSE wrap(Tail(tokens), <<Head(tokens)>>, lines)
        ELSE IF joined_len(cur_line) + 1 + Head(tokens).len <= width
               THEN wrap(Tail(tokens), Append(cur_line, Head(tokens)), lines)
               ELSE wrap(tokens, <<>>, Append(lines, cur_line))

\* speak, lines 168-169: chunks.append(current_chunk.strip()) unless blank.
append_chunk(chunks, current_chunk) ==
    IF current_chunk # <<>> THEN Append(chunks, current_chunk) ELSE chunks

\* speak without lines 171-172: the buffer left by the loop is forgotten.
last_chunk_dropped(chunks, current_chunk) == chunks

\* speak, lines 171-172: the buffer left by the loop is the last chunk.
last_chunk(chunks, current_chunk) == append_chunk(chunks, current_chunk)

\* speak without the test of line 165: every line is taken.
fits_always(current_chunk, sentence) == TRUE

\* speak, line 165: len(current_chunk) + len(sentence) + 1 <= max_chunk_size;
\* current_chunk ends with a space when it is not empty.
fits(current_chunk, sentence) ==
    LET len_current_chunk ==
            IF current_chunk = <<>> THEN 0 ELSE joined_len(current_chunk) + 1
    IN  len_current_chunk + joined_len(sentence) + 1 <= max_chunk_size

\* speak, lines 163-170: the loop over the lines.
RECURSIVE pack(_, _, _)
pack(sentences, current_chunk, chunks) ==
    IF sentences = <<>> THEN last_chunk(chunks, current_chunk)
    ELSE LET sentence == Head(sentences)
         IN  IF fits(current_chunk, sentence)
               THEN pack(Tail(sentences), current_chunk \o sentence, chunks)
               ELSE pack(Tail(sentences), sentence,
                         append_chunk(chunks, current_chunk))

\* speak, lines 155-181: text_chunks of a text, or the text itself when it
\* is not longer than max_chunk_size (text_chunks = None).
chunking(text) ==
    IF joined_len(Tokens(text)) > max_chunk_size
      THEN [cut |-> TRUE, chunks |-> pack(wrap(Tokens(text), <<>>, <<>>), <<>>, <<>>)]
      ELSE [cut |-> FALSE, chunks |-> <<Tokens(text)>>]

\* The texts speak() is called with.
ChunkedTexts ==
    UNION {[1..n -> TokenLens] : n \in 1..MaxTokens}

ChunkingCalls ==
    {[fn |-> "chunks", text |-> t, out |-> <<>>, cut |-> FALSE, done |-> FALSE] :
        t \in ChunkedTexts}

\* _play_with_word_sync without the safety check of lines 452-454.
never_past_grace(elapsed_time, audio_duration) == FALSE

\* _play_with_word_sync, line 452: elapsed_time > audio_duration + 1.0.
past_grace(elapsed_time, audio_duration) ==
    elapsed_time > audio_duration + GraceTicks

\* The word timings a sync loop is run with: any offsets, in any order.
SyncTimings ==
    UNION {[1..n -> 0..MaxOffset] : n \in 0..MaxSyncWords}

\* _play_with_word_sync, lines 432-434: the loop is entered with
\* current_word_index = 0; no poll has been made yet.
SyncCalls ==
    {[fn |-> "sync", word_timings |-> t, audio_duration |-> d,
      elapsed_time |-> -1, current_word_index |-> 0, pc |-> "loop"] :
        t \in SyncTimings, d \in 1..MaxDuration}

\* The characters of a chunk text that is preprocessed: a lower case
\* letter, an upper case letter, the slash, the plus sign and the space.
Chars == {"a", "A", "/", "+", " "}

\* The characters \w of a regular expression.
WordChars == {"a", "A"}

\* _expand_abbreviations, ' '.join(m.group(1)): the letters with spaces.
joined_letters(run) ==
    [i \in 1..(2 * Len(run) - 1) |-> IF i % 2 = 1 THEN run[(i + 1) \div 2] ELSE " "]

\* _expand_abbreviations, line 529: a run of word characters matches
\* \b([A-Z]{2,6})\b when it is 2 to 6 upper case letters and nothing else.
expand_run(run) ==
    IF Len(run) \in 2..6 /\ \A i \in DOMAIN run : run[i] = "A"
      THEN joined_letters(run) ELSE run

\* _expand_abbreviations, line 529: re.sub over the text; run is the run of
\* word characters read so far.
RECURSIVE expand_abbreviations(_, _)
expand_abbreviations(text, run) ==
    IF text = <<>> THEN expand_run(run)
    ELSE IF Head(text) \in WordChars
      THEN expand_abbreviations(Tail(text), Append(run, Head(text)))
      ELSE expand_run(run) \o <<Head(text)>> \o expand_abbreviations(Tail(text), <<>>)

\* _preprocess_text, lines 492-514: '/' becomes ' ' and '+' becomes
\* ' plus ' (the other replacements are of characters no text here has).
RECURSIVE replacements(_)
replacements(text) ==
    IF text = <<>> THEN <<>>
    ELSE (CASE Head(text) = "/" -> <<" ">>
            [] Head(text) = "+" -> <<" ", "a", "a", "a", "a", " ">>
            [] OTHER -> <<Head(text)>>) \o replacements(Tail(text))

\* text.split(): the lengths of the whitespace-delimited tokens of text;
\* n is the length of the token read so far.
RECURSIVE split(_, _)
split(text, n) ==
    IF text = <<>> THEN (IF n > 0 THEN <<n>> ELSE <<>>)
    ELSE IF Head(text) = " "
      THEN (IF n > 0 THEN <<n>> ELSE <<>>) \o split(Tail(text), 0)
      ELSE split(Tail(text), n + 1)

\* _preprocess_text, lines 485-521, as the words of the text it returns
\* (line 519 joins them with single spaces).
preprocess_text(text) == split(replacements(expand_abbreviations(text, <<>>)), 0)

\* The chunk texts that are preprocessed: at least one token.
ChunkTexts ==
    {t \in UNION {[1..n -> Chars] : n \in 1..MaxChars} : split(t, 0) # <<>>}

WordCountCalls ==
    {[fn |-> "words", text |-> t, out |-> <<>>, done |-> FALSE] : t \in ChunkTexts}

\* The calls of pure functions a run starts with.
Calls == {NoCalc} \cup TimingCalls \cup ChunkingCalls \cup SyncCalls
            \cup WordCountCalls

\* What a run records: nothing, the control calls, the order of the chunks
\* played, the chunk a pause interrupted, the word events, or what follows
\* a stop().
Observers == {"none", "calls", "order", "pause", "words", "stop", "chunks", "halt"}

\* CoquiTTS.__init__: the state after construction; _initialize_tts leaves
\* self.tts None when the backend fails to load.
Init ==
    /\ tts \in BOOLEAN
    /\ is_playing = FALSE
    /\ is_paused = FALSE
    /\ stopped = FALSE
    /\ audio_queue = <<>>
    /\ text_chunks = NoChunks
    /\ current_text = NoText
    /\ current_chunk_index = -1
    /\ device = NoText
    /\ caller = IdleCaller
    /\ prod = [s \in Sessions |-> NoProducer]
    /\ cons = [s \in Sessions |-> NoConsumer]
    /\ nsess = 0
    /\ nchunks = 0
    /\ ncalls = 0
    /\ observe \in Observers
    /\ calc \in Calls
    /\ call = "none"
    /\ highest = -1
    /\ synth_failed = FALSE
    /\ interrupted = NoInterrupt
    /\ last_word = NoWord
    /\ after_stop = FALSE
    /\ words_after_stop = 0
    /\ synthesized = {}
    /\ succeeded = {}
    /\ played = {}
    /\ raised = FALSE
    /\ last_op = "none"

(***************************************************************************)
(* What the history variables record.                                      *)
(***************************************************************************)

Max(a, b) == IF a >= b THEN a ELSE b

\* A control method is called, or has made its write.
observe_call(method) ==
    /\ call' = IF observe = "calls" THEN method ELSE call
    /\ UNCHANGED <<fixed, highest, synth_failed, interrupted, last_word,
                   after_stop, words_after_stop, later>>

\* speak(text) is called and passes its input checks: a session begins.
observe_speak(text) ==
    /\ call' = IF observe = "calls"
                 THEN (IF text.blank THEN "speak_blank" ELSE "speak") ELSE call
    /\ synth_failed' = FALSE
    /\ interrupted' = NoInterrupt
    /\ last_word' = NoWord
    /\ after_stop' = FALSE
    /\ words_after_stop' = 0
    /\ highest' = -1
    /\ synthesized' = {}
    /\ succeeded' = {}
    /\ played' = {}
    /\ raised' = FALSE
    /\ UNCHANGED <<fixed, last_op>>

\* stop() is called and finds something to stop.
observe_stop ==
    /\ call' = IF observe = "calls" THEN "stop" ELSE call
    /\ interrupted' = NoInterrupt
    /\ UNCHANGED <<fixed, highest, synth_failed, last_word, after_stop,
                   words_after_stop, later>>

\* A stop() called by the caller returns.
observe_stop_returns ==
    /\ after_stop' = (observe \in {"stop", "halt"})
    /\ words_after_stop' = 0
    /\ UNCHANGED <<fixed, highest, synth_failed, interrupted, last_word, later>>

\* A stop() called by the caller returns from its sd.stop().
observe_stop_halts ==
    /\ after_stop' = (observe \in {"stop", "halt"})
    /\ words_after_stop' = 0
    /\ last_op' = IF observe = "halt" THEN "halt" ELSE last_op
    /\ UNCHANGED <<fixed, highest, synth_failed, interrupted, last_word,
                   synthesized, succeeded, played, raised>>

\* A synthesis call for a chunk returns.
observe_synthesis(chunk, ok) ==
    /\ synth_failed' = (synth_failed \/ (observe = "order" /\ ~ok))
    /\ synthesized' = IF observe = "chunks"
                        THEN synthesized \cup {chunk} ELSE synthesized
    /\ succeeded' = IF observe = "chunks" /\ ok
                      THEN succeeded \cup {chunk} ELSE succeeded
    /\ UNCHANGED <<fixed, call, highest, interrupted, last_word, after_stop,
                   words_after_stop, played, raised, last_op>>

\* Consumer s starts the audio of chunk cons[s].txt on the device; highest
\* follows the chunks of the session speak() began last.
observe_play(s) ==
    /\ highest' = IF observe = "order" /\ cons[s].txt[1] = nsess
                    THEN Max(highest, cons[s].txt[2]) ELSE highest
    /\ interrupted' = NoInterrupt
    /\ played' = IF observe = "chunks" THEN played \cup {cons[s].txt} ELSE played
    /\ last_op' = IF observe = "halt" THEN "play" ELSE last_op
    /\ UNCHANGED <<fixed, call, synth_failed, last_word, after_stop,
                   words_after_stop, synthesized, succeeded, raised>>

\* sd.play or sd.wait raises.
observe_raise ==
    /\ raised' = (raised \/ observe = "chunks")
    /\ last_op' = IF observe = "halt" THEN "halt" ELSE last_op
    /\ UNCHANGED <<fixed, call, highest, synth_failed, interrupted, last_word,
                   after_stop, words_after_stop, synthesized, succeeded, played>>

\* sd.stop() is called.
observe_halt ==
    /\ last_op' = IF observe = "halt" THEN "halt" ELSE last_op
    /\ UNCHANGED <<fixed, call, highest, synth_failed, interrupted, last_word,
                   after_stop, words_after_stop, synthesized, succeeded, played,
                   raised>>

\* Consumer s finds the condition of its sync loop false.  When the loop is
\* the one a pause() found running, words are unfired and it is is_paused
\* that ends it, the loop is left on pause with next unfired word cwi.
observe_sync_exit(s) ==
    /\ interrupted' = IF observe = "pause" /\ interrupted.txt = cons[s].txt
                        THEN (IF cons[s].cwi < Words /\ ~stopped /\ is_paused
                                THEN [txt |-> cons[s].txt, k |-> cons[s].cwi,
                                      left |-> TRUE]
                                ELSE NoInterrupt)
                        ELSE interrupted
    /\ UNCHANGED <<fixed, call, highest, synth_failed, last_word,
                   after_stop, words_after_stop, later>>

\* The consumers that are in the sync loop of a chunk, with words unfired.
Synchronizing == {s \in Sessions : cons[s].pc \in {"sync", "word"}
                                     /\ cons[s].cwi < Words}

\* pause() sets is_paused.
observe_pause ==
    /\ call' = IF observe = "calls" THEN "paused" ELSE call
    /\ interrupted' = IF observe = "pause" /\ Synchronizing # {}
                        THEN [NoInterrupt EXCEPT
                                !.txt = cons[CHOOSE s \in Synchronizing : TRUE].txt]
                        ELSE interrupted
    /\ UNCHANGED <<fixed, highest, synth_failed, last_word, after_stop,
                   words_after_stop, later>>

\* resume() clears is_paused; a loop that has not been left goes on.
observe_resume ==
    /\ call' = IF observe = "calls" THEN "resumed" ELSE call
    /\ interrupted' = IF interrupted.left THEN interrupted ELSE NoInterrupt
    /\ UNCHANGED <<fixed, highest, synth_failed, last_word, after_stop,
                   words_after_stop, later>>

\* Consumer s emits word_signal(cons[s].cwi); last_word follows the events
\* of the chunks of the session speak() began last.
observe_word(s) ==
    /\ last_word' = IF observe = "words" /\ cons[s].txt[1] = nsess
                      THEN [by |-> s, idx |-> cons[s].cwi] ELSE last_word
    /\ words_after_stop' = IF observe = "stop" /\ after_stop /\ words_after_stop < 2
                             THEN words_after_stop + 1 ELSE words_after_stop
    /\ UNCHANGED <<fixed, call, highest, synth_failed, interrupted,
                   after_stop, later>>

(***************************************************************************)
(* The caller thread.  A control method is called when the caller is       *)
(* "idle"; inside a method caller.pc names the statement to execute next.  *)
(***************************************************************************)

\* The texts speak() is called with: blank (empty or whitespace only), or
\* non-blank and cut into n chunks (n = 0: not longer than max_chunk_size,
\* lines 178-181).
Texts == {[blank |-> TRUE, n |-> 0]} \cup
         {[blank |-> FALSE, n |-> k] : k \in 0..MaxChunks}

Goto(pc) == caller' = [caller EXCEPT !.pc = pc]

\* A control method is called: the caller is idle and has calls left.
called ==
    /\ caller.pc = "idle"
    /\ ncalls < MaxCalls
    /\ ncalls' = ncalls + 1

\* Number of sessions of a run: the observers of the order of the chunks
\* and of the paused chunk follow a single session.
SessionLimit == IF observe \in {"order", "pause", "chunks"} THEN 1 ELSE MaxSessions

\* Number of chunks of a run: the observer of the halts follows runs of two
\* chunks, in one session or in two.
ChunkLimit == IF observe = "halt" THEN MaxTotalChunks - 1 ELSE MaxTotalChunks

\* speak without the test of lines 146-148.
speak_checks_backend_only(text) == ~tts

\* speak, lines 142-148: the early returns.
speak_returns_early(text) == ~tts \/ text.blank

\* stop, line 244.
stop_guard == is_playing \/ is_paused

\* speak, lines 142-151: the input checks, then the call of self.stop(),
\* whose own first statement (line 244) is evaluated here.
speak(text) ==
    /\ called
    /\ IF speak_returns_early(text)
         THEN /\ observe_call(IF text.blank THEN "speak_blank" ELSE "speak")
              /\ UNCHANGED <<engine, device, caller, prod, cons, nsess, nchunks>>
         ELSE /\ nsess < SessionLimit
              /\ nsess' = nsess + 1
              /\ nchunks + Max(text.n, 1) <= ChunkLimit
              /\ nchunks' = nchunks + Max(text.n, 1)
              /\ caller' = [pc |-> IF stop_guard THEN "stop_flags" ELSE "speak_stopped",
                            ret |-> "speak", n |-> text.n]
              /\ observe_speak(text)
              /\ UNCHANGED <<engine, device, prod, cons>>

\* stop, line 244, called by the caller.
stop ==
    /\ called
    /\ IF stop_guard
         THEN /\ caller' = [pc |-> "stop_flags", ret |-> "idle", n |-> 0]
              /\ observe_stop
         ELSE /\ observe_stop_returns
              /\ call' = IF observe = "calls" THEN "stop" ELSE call
              /\ UNCHANGED caller
    /\ UNCHANGED <<engine, device, prod, cons, nsess, nchunks>>

\* stop, lines 246-248.
stop_flags ==
    /\ caller.pc = "stop_flags"
    /\ is_playing' = FALSE
    /\ is_paused' = FALSE
    /\ stopped' = TRUE
    /\ Goto("stop_clear")
    /\ UNCHANGED <<tts, audio_queue, text_chunks, current_text,
                   current_chunk_index, device, threads, history>>

\* stop, lines 253-258: one get_nowait() of the loop; queue.Empty ends it.
stop_clear ==
    /\ caller.pc = "stop_clear"
    /\ IF audio_queue # <<>>
         THEN /\ audio_queue' = Tail(audio_queue)
              /\ UNCHANGED caller
         ELSE /\ Goto("stop_sd")
              /\ UNCHANGED audio_queue
    /\ UNCHANGED <<tts, is_playing, is_paused, stopped, text_chunks,
                   current_text, current_chunk_index, device, threads, history>>

\* stop, lines 263-268: sd.stop(), and the return to the caller or to speak.
stop_sd ==
    /\ caller.pc = "stop_sd"
    /\ device' = NoText
    /\ IF caller.ret = "speak"
         THEN /\ Goto("speak_stopped")
              /\ observe_halt
         ELSE /\ caller' = IdleCaller
              /\ observe_stop_halts
              /\ UNCHANGED call
    /\ UNCHANGED <<engine, threads>>

\* speak, line 152.
speak_stopped ==
    /\ caller.pc = "speak_stopped"
    /\ stopped' = FALSE
    /\ Goto("speak_text")
    /\ UNCHANGED <<tts, is_playing, is_paused, audio_queue, text_chunks,
                   current_text, current_chunk_index, device, threads, history>>

\* speak, lines 154-181: the text is cut into caller.n chunks (lines 156-172
\* work on locals) and text_chunks, current_chunk_index and current_text
\* are set.
speak_text ==
    /\ caller.pc = "speak_text"
    /\ text_chunks' = IF caller.n > 0 THEN [sid |-> nsess, n |-> caller.n]
                                      ELSE NoChunks
    /\ current_chunk_index' = IF caller.n > 0 THEN 0 ELSE -1
    /\ current_text' = <<nsess, 0>>
    /\ Goto("speak_flags")
    /\ UNCHANGED <<tts, is_playing, is_paused, stopped, audio_queue, device,
                   threads, history>>

\* speak, lines 186-191: the flags, and the test whether a preprocessing
\* thread is needed (text_chunks is written by the caller only).
speak_flags ==
    /\ caller.pc = "speak_flags"
    /\ is_playing' = TRUE
    /\ is_paused' = FALSE
    /\ Goto(IF caller.n > 1 THEN "speak_preprocess" ELSE "speak_playback")
    /\ UNCHANGED <<tts, stopped, audio_queue, text_chunks, current_text,
                   current_chunk_index, device, threads, history>>

\* speak, lines 192-193: the preprocessing thread is started.
speak_preprocess ==
    /\ caller.pc = "speak_preprocess"
    /\ prod' = [prod EXCEPT ![nsess] = [NoProducer EXCEPT !.pc = "start"]]
    /\ Goto("speak_playback")
    /\ UNCHANGED <<engine, device, cons, nsess, nchunks, ncalls, history>>

\* speak, lines 197-199: the playback worker is started (its test of line
\* 275 holds: current_text is not blank once speak has set it), and speak
\* returns.
speak_playback ==
    /\ caller.pc = "speak_playback"
    /\ cons' = [cons EXCEPT ![nsess] = [pc |-> "process", phase |-> 1,
                                         txt |-> NoText, cwi |-> 0]]
    /\ caller' = IdleCaller
    /\ UNCHANGED <<engine, device, prod, nsess, nchunks, ncalls, history>>

\* pause, line 232.
pause_guard == is_playing /\ ~is_paused

\* pause, line 232.
pause ==
    /\ called
    /\ IF pause_guard
         THEN caller' = [pc |-> "pause_is_paused", ret |-> "idle", n |-> 0]
         ELSE UNCHANGED caller
    /\ observe_call("pause")
    /\ UNCHANGED <<engine, device, prod, cons, nsess, nchunks>>

\* pause, lines 233-234.
pause_is_paused ==
    /\ caller.pc = "pause_is_paused"
    /\ is_paused' = TRUE
    /\ caller' = IdleCaller
    /\ observe_pause
    /\ UNCHANGED <<tts, is_playing, stopped, audio_queue, text_chunks,
                   current_text, current_chunk_index, device, threads>>

\* resume without the test of is_paused.
resume_guard_unpaused == is_playing

\* resume, line 238.
resume_guard == is_playing /\ is_paused

\* resume, line 238.
resume ==
    /\ called
    /\ IF resume_guard
         THEN caller' = [pc |-> "resume_is_paused", ret |-> "idle", n |-> 0]
         ELSE UNCHANGED caller
    /\ observe_call("resume")
    /\ UNCHANGED <<engine, device, prod, cons, nsess, nchunks>>

\* resume, lines 239-240.
resume_is_paused ==
    /\ caller.pc = "resume_is_paused"
    /\ is_paused' = FALSE
    /\ caller' = IdleCaller
    /\ observe_resume
    /\ UNCHANGED <<tts, is_playing, stopped, audio_queue, text_chunks,
                   current_text, current_chunk_index, device, threads>>

(***************************************************************************)
(* The preprocessing thread of session s: _preprocess_remaining_chunks.    *)
(***************************************************************************)

ProducerDone == [NoProducer EXCEPT !.pc = "done"]

\* The backend call self.tts.tts(text) returns audio (TRUE), or returns an
\* empty buffer or raises (FALSE); both failures only skip the chunk.
SynthOutcomes == BOOLEAN

\* lines 204-208: the test of text_chunks, and range(1, len(text_chunks)).
preprocess_start(s) ==
    /\ prod[s].pc = "start"
    /\ prod' = [prod EXCEPT ![s] =
                  IF text_chunks.n <= 1 THEN ProducerDone
                  ELSE [pc |-> "loop", idx |-> 1, len |-> text_chunks.n,
                        txt |-> NoText]]
    /\ UNCHANGED <<engine, device, caller, cons, nsess, nchunks, ncalls, history>>

\* line 209: the cancellation test the producer makes before a chunk.
producer_cancelled == stopped

\* lines 208-211: the next idx of the for loop, and the stopped test.
preprocess_loop(s) ==
    /\ prod[s].pc = "loop"
    /\ prod' = [prod EXCEPT ![s] =
                  IF prod[s].idx >= prod[s].len \/ producer_cancelled
                    THEN ProducerDone
                    ELSE [prod[s] EXCEPT !.pc = "chunk"]]
    /\ UNCHANGED <<engine, device, caller, cons, nsess, nchunks, ncalls, history>>

\* lines 213-221: chunk_text = self.text_chunks[idx] (a TypeError or an
\* IndexError, when a later speak() replaced text_chunks, ends the thread),
\* then the synthesis call is made.
preprocess_chunk(s) ==
    /\ prod[s].pc = "chunk"
    /\ prod' = [prod EXCEPT ![s] =
                  IF prod[s].idx < text_chunks.n
                    THEN [prod[s] EXCEPT !.pc = "tts",
                                         !.txt = <<text_chunks.sid, prod[s].idx>>]
                    ELSE ProducerDone]
    /\ UNCHANGED <<engine, device, caller, cons, nsess, nchunks, ncalls, history>>

\* lines 221-228: the synthesis call returns; its audio is put on the queue.
preprocess_tts(s) ==
    /\ prod[s].pc = "tts"
    /\ \E ok \in SynthOutcomes :
          /\ audio_queue' = IF ok THEN Append(audio_queue, prod[s].txt)
                                  ELSE audio_queue
          /\ observe_synthesis(prod[s].txt, ok)
    /\ prod' = [prod EXCEPT ![s] = [pc |-> "loop", idx |-> prod[s].idx + 1,
                                     len |-> prod[s].len, txt |-> NoText]]
    /\ UNCHANGED <<tts, is_playing, is_paused, stopped, text_chunks,
                   current_text, current_chunk_index, device, caller, cons,
                   nsess, nchunks, ncalls>>

(***************************************************************************)
(* The playback worker of session s: _playback_worker, with the calls of   *)
(* _process_current_chunk and _play_with_word_sync it makes.  cons[s].phase *)
(* is the part of the worker the call was made from: 1 the first chunk     *)
(* (line 276), 2 the queue loop (line 296), 3 the sequential loop (314).   *)
(***************************************************************************)

ConsumerAt(s, pc) == [pc |-> pc, phase |-> cons[s].phase, txt |-> NoText, cwi |-> 0]

\* Where _playback_worker goes on when a call made in `phase` returns.
AfterChunk(phase) == IF phase = 3 THEN "seq_loop" ELSE "queue_loop"

Returned(s) == ConsumerAt(s, AfterChunk(cons[s].phase))

\* _process_current_chunk, lines 330-343: current_text is read and the
\* synthesis call is made.
process_current_chunk(s) ==
    /\ cons[s].pc = "process"
    /\ cons' = [cons EXCEPT ![s] = [@ EXCEPT !.pc = "tts", !.txt = current_text]]
    /\ UNCHANGED <<engine, device, caller, prod, nsess, nchunks, ncalls, history>>

\* _process_current_chunk, lines 343-360: the synthesis call returns; on
\* empty audio (line 346) or an exception (line 359) the chunk is skipped.
process_tts(s) ==
    /\ cons[s].pc = "tts"
    /\ \E ok \in SynthOutcomes :
          /\ cons' = [cons EXCEPT ![s] =
                        IF ok THEN [@ EXCEPT !.pc = "play"] ELSE Returned(s)]
          /\ observe_synthesis(cons[s].txt, ok)
    /\ UNCHANGED <<engine, device, caller, prod, nsess, nchunks, ncalls>>

\* _play_with_word_sync, line 417.
play_refused == stopped \/ ~is_playing

\* _play_with_word_sync, lines 417-418.
play_check(s) ==
    /\ cons[s].pc = "play"
    /\ cons' = [cons EXCEPT ![s] =
                  IF play_refused THEN Returned(s) ELSE [@ EXCEPT !.pc = "sd_play"]]
    /\ UNCHANGED <<engine, device, caller, prod, nsess, nchunks, ncalls, history>>

\* sd.play and sd.wait succeed (TRUE) or raise (FALSE).
DeviceOutcomes == BOOLEAN

\* _play_with_word_sync, lines 428-434: sd.play(wav); when it raises, the
\* handler of lines 467-472 calls sd.stop() and the method returns.
sd_play(s) ==
    /\ cons[s].pc = "sd_play"
    /\ \E ok \in DeviceOutcomes :
          IF ok
            THEN /\ device' = cons[s].txt
                 /\ observe_play(s)
                 /\ cons' = [cons EXCEPT ![s] = [@ EXCEPT !.pc = "sync", !.cwi = 0]]
            ELSE /\ device' = NoText
                 /\ cons' = [cons EXCEPT ![s] = Returned(s)]
                 /\ observe_raise
    /\ UNCHANGED <<engine, caller, prod, nsess, nchunks, ncalls>>

\* _play_with_word_sync, lines 436-438: the condition of the sync loop.
sync_continues(s) == cons[s].cwi < Words /\ ~stopped /\ ~is_paused

\* _play_with_word_sync, lines 436-438.
sync_check(s) ==
    /\ cons[s].pc = "sync"
    /\ cons' = [cons EXCEPT ![s] =
                  [@ EXCEPT !.pc = IF sync_continues(s) THEN "word" ELSE "sync_end"]]
    /\ IF sync_continues(s) THEN UNCHANGED history ELSE observe_sync_exit(s)
    /\ UNCHANGED <<engine, device, caller, prod, nsess, nchunks, ncalls>>

\* One pass of the loop body, lines 440-454: `due` is the outcome of
\* elapsed_time >= word_timings[current_word_index] (line 443), `late` that
\* of elapsed_time > audio_duration + 1.0 (line 452).  The timings do not
\* exceed audio_duration (lines 399-404), so a late pass is a due one.
SyncPasses == {[due |-> TRUE, late |-> FALSE], [due |-> TRUE, late |-> TRUE],
               [due |-> FALSE, late |-> FALSE]}

\* _play_with_word_sync, lines 440-454.
sync_word(s) ==
    /\ cons[s].pc = "word"
    /\ \E pass \in SyncPasses :
          /\ IF pass.due THEN observe_word(s) ELSE UNCHANGED history
          /\ cons' = [cons EXCEPT ![s] =
                        [@ EXCEPT !.pc = IF pass.late THEN "sync_end" ELSE "sync",
                                  !.cwi = IF pass.due THEN @ + 1 ELSE @]]
    /\ UNCHANGED <<engine, device, caller, prod, nsess, nchunks, ncalls>>

\* _play_with_word_sync, line 457.
wait_wanted == ~stopped /\ ~is_paused

\* _play_with_word_sync, line 457.
sync_end(s) ==
    /\ cons[s].pc = "sync_end"
    /\ cons' = [cons EXCEPT ![s] =
                  [@ EXCEPT !.pc = IF wait_wanted THEN "sd_wait" ELSE "halt_check"]]
    /\ UNCHANGED <<engine, device, caller, prod, nsess, nchunks, ncalls, history>>

\* _play_with_word_sync, line 459: sd.wait() returns when the device plays
\* nothing any more; when it raises, lines 467-472 call sd.stop().
sd_wait(s) ==
    /\ cons[s].pc = "sd_wait"
    /\ \E ok \in DeviceOutcomes :
          IF ok
            THEN /\ device = NoText
                 /\ cons' = [cons EXCEPT ![s] = [@ EXCEPT !.pc = "halt_check"]]
                 /\ UNCHANGED <<device, history>>
            ELSE /\ device' = NoText
                 /\ cons' = [cons EXCEPT ![s] = Returned(s)]
                 /\ observe_raise
    /\ UNCHANGED <<engine, caller, prod, nsess, nchunks, ncalls>>

\* _play_with_word_sync, line 463.
halt_wanted == stopped \/ is_paused

\* _play_with_word_sync, line 463.
halt_check(s) ==
    /\ cons[s].pc = "halt_check"
    /\ cons' = [cons EXCEPT ![s] =
                  IF halt_wanted THEN [@ EXCEPT !.pc = "sd_stop"] ELSE Returned(s)]
    /\ UNCHANGED <<engine, device, caller, prod, nsess, nchunks, ncalls, history>>

\* _play_with_word_sync, line 465: sd.stop().
sd_stop(s) ==
    /\ cons[s].pc = "sd_stop"
    /\ device' = NoText
    /\ cons' = [cons EXCEPT ![s] = Returned(s)]
    /\ observe_halt
    /\ UNCHANGED <<engine, caller, prod, nsess, nchunks, ncalls>>

\* The audio device plays the buffer it was given to its end.
audio_ends ==
    /\ device # NoText
    /\ device' = NoText
    /\ UNCHANGED <<engine, caller, threads, history>>

\* _playback_worker, line 282: the condition of the queue loop.
queue_loop(s) ==
    /\ cons[s].pc = "queue_loop"
    /\ cons' = [cons EXCEPT ![s] =
                  ConsumerAt(s, IF stopped THEN "seq_check" ELSE "queue_pause")]
    /\ UNCHANGED <<engine, device, caller, prod, nsess, nchunks, ncalls, history>>

\* _playback_worker, lines 284-286: while paused, sleep and test again.
queue_pause(s) ==
    /\ cons[s].pc = "queue_pause"
    /\ cons' = [cons EXCEPT ![s] =
                  ConsumerAt(s, IF is_paused THEN "queue_loop" ELSE "queue_get")]
    /\ UNCHANGED <<engine, device, caller, prod, nsess, nchunks, ncalls, history>>

\* _playback_worker, lines 288-300: audio_queue.get(timeout=1.0) hands over
\* the oldest item; on an empty queue it may time out (queue.Empty), which
\* leaves the loop.  The timings of line 295 are a local.
queue_get(s) ==
    /\ cons[s].pc = "queue_get"
    /\ IF audio_queue # <<>>
         THEN /\ audio_queue' = Tail(audio_queue)
              /\ cons' = [cons EXCEPT ![s] = [pc |-> "play", phase |-> 2,
                                               txt |-> Head(audio_queue), cwi |-> 0]]
         ELSE /\ cons' = [cons EXCEPT ![s] = ConsumerAt(s, "seq_check")]
              /\ UNCHANGED audio_queue
    /\ UNCHANGED <<tts, is_playing, is_paused, stopped, text_chunks,
                   current_text, current_chunk_index, device, caller, prod,
                   nsess, nchunks, ncalls, history>>

\* _playback_worker, lines 303 and 306: chunks remain after the current one.
\* text_chunks = None makes line 303 false and line 306 raise a TypeError,
\* which line 318 catches.
chunks_remain == text_chunks.n > 0 /\ current_chunk_index < text_chunks.n - 1

\* _playback_worker, line 303.
seq_check(s) ==
    /\ cons[s].pc = "seq_check"
    /\ cons' = [cons EXCEPT ![s] =
                  ConsumerAt(s, IF chunks_remain THEN "seq_loop" ELSE "finally")]
    /\ UNCHANGED <<engine, device, caller, prod, nsess, nchunks, ncalls, history>>

\* _playback_worker, lines 305-306: the condition of the sequential loop.
seq_loop(s) ==
    /\ cons[s].pc = "seq_loop"
    /\ cons' = [cons EXCEPT ![s] =
                  [pc |-> IF ~stopped /\ chunks_remain THEN "seq_pause" ELSE "finally",
                   phase |-> 3, txt |-> NoText, cwi |-> 0]]
    /\ UNCHANGED <<engine, device, caller, prod, nsess, nchunks, ncalls, history>>

\* _playback_worker, lines 307-309.
seq_pause(s) ==
    /\ cons[s].pc = "seq_pause"
    /\ cons' = [cons EXCEPT ![s] =
                  ConsumerAt(s, IF is_paused THEN "seq_loop" ELSE "seq_index")]
    /\ UNCHANGED <<engine, device, caller, prod, nsess, nchunks, ncalls, history>>

\* _playback_worker, line 311.
seq_index(s) ==
    /\ cons[s].pc = "seq_index"
    /\ current_chunk_index' = current_chunk_index + 1
    /\ cons' = [cons EXCEPT ![s] = ConsumerAt(s, "seq_text")]
    /\ UNCHANGED <<tts, is_playing, is_paused, stopped, audio_queue,
                   text_chunks, current_text, device, caller, prod, nsess, nchunks,
                   ncalls, history>>

\* _playback_worker, lines 312-314: current_text = text_chunks[index]; a
\* TypeError or IndexError (text_chunks replaced by a later speak()) is
\* caught by line 318.
seq_text(s) ==
    /\ cons[s].pc = "seq_text"
    /\ IF current_chunk_index < text_chunks.n
         THEN /\ current_text' = <<text_chunks.sid, current_chunk_index>>
              /\ cons' = [cons EXCEPT ![s] = ConsumerAt(s, "process")]
         ELSE /\ cons' = [cons EXCEPT ![s] = ConsumerAt(s, "finally")]
              /\ UNCHANGED current_text
    /\ UNCHANGED <<tts, is_playing, is_paused, stopped, audio_queue,
                   text_chunks, current_chunk_index, device, caller, prod,
                   nsess, nchunks, ncalls, history>>

\* _playback_worker, lines 320-325: the finally clause; the thread ends.
finally(s) ==
    /\ cons[s].pc = "finally"
    /\ is_playing' = FALSE
    /\ is_paused' = FALSE
    /\ cons' = [cons EXCEPT ![s] = [NoConsumer EXCEPT !.pc = "done"]]
    /\ UNCHANGED <<tts, stopped, audio_queue, text_chunks, current_text,
                   current_chunk_index, device, caller, prod, nsess, nchunks, ncalls,
                   history>>

ControlCalls ==
    \/ \E text \in Texts : speak(text)
    \/ speak_stopped \/ speak_text \/ speak_flags \/ speak_preprocess
    \/ speak_playback
    \/ pause \/ pause_is_paused \/ resume \/ resume_is_paused
    \/ stop \/ stop_flags \/ stop_clear \/ stop_sd

Producer(s) ==
    \/ preprocess_start(s) \/ preprocess_loop(s) \/ preprocess_chunk(s)
    \/ preprocess_tts(s)

Consumer(s) ==
    \/ process_current_chunk(s) \/ process_tts(s)
    \/ play_check(s) \/ sd_play(s) \/ sync_check(s) \/ sync_word(s)
    \/ sync_end(s) \/ sd_wait(s) \/ halt_check(s) \/ sd_stop(s)
    \/ queue_loop(s) \/ queue_pause(s) \/ queue_get(s)
    \/ seq_check(s) \/ seq_loop(s) \/ seq_pause(s) \/ seq_index(s)
    \/ seq_text(s) \/ finally(s)

Next ==
    \/ ControlCalls
    \/ \E s \in Sessions : Producer(s) \/ Consumer(s)
    \/ audio_ends

(***************************************************************************)
(* The calls of the pure functions.                                        *)
(***************************************************************************)

\* _estimate_word_timings is called and returns.
estimate ==
    /\ calc.fn = "timings" /\ ~calc.done
    /\ calc' = [calc EXCEPT !.out = estimate_word_timings(calc.words, calc.samples),
                            !.done = TRUE]
    /\ UNCHANGED <<engine, device, caller, threads, observe, recorded>>

\* speak() cuts its text.
chunk_text ==
    /\ calc.fn = "chunks" /\ ~calc.done
    /\ calc' = [calc EXCEPT !.out = chunking(calc.text).chunks,
                            !.cut = chunking(calc.text).cut,
                            !.done = TRUE]
    /\ UNCHANGED <<engine, device, caller, threads, observe, recorded>>

\* _play_with_word_sync, lines 436-454, with the clock: one evaluation of
\* the loop condition (stopped and is_paused stay false) and, when it
\* holds, one pass at time elapsed_time: the word that is due is emitted
\* and the safety check is made.
sync_poll ==
    /\ calc.fn = "sync" /\ calc.pc = "loop"
    /\ IF calc.current_word_index < Len(calc.word_timings)
         THEN \E elapsed_time \in (calc.elapsed_time + 1)..(calc.elapsed_time + MaxStep) :
                 /\ elapsed_time <= MaxDuration + GraceTicks + MaxStep
                 /\ calc' = [calc EXCEPT
                       !.elapsed_time = elapsed_time,
                       !.current_word_index =
                           IF elapsed_time >= calc.word_timings[calc.current_word_index + 1]
                             THEN @ + 1 ELSE @,
                       !.pc = IF past_grace(elapsed_time, calc.audio_duration)
                                THEN "exited" ELSE "loop"]
         ELSE calc' = [calc EXCEPT !.pc = "exited"]
    /\ UNCHANGED <<engine, device, caller, threads, observe, recorded>>

\* _process_current_chunk, lines 338-355 (and lines 218-221, 295 for a
\* queued chunk): the text is preprocessed and, for audio of one second,
\* the word timings of the processed text are estimated.
time_chunk_words ==
    /\ calc.fn = "words" /\ ~calc.done
    /\ calc' = [calc EXCEPT
                  !.out = estimate_word_timings(preprocess_text(calc.text), sample_rate),
                  !.done = TRUE]
    /\ UNCHANGED <<engine, device, caller, threads, observe, recorded>>

(***************************************************************************)
(* Specifications: the engine and its threads, with one of the observers.  *)
(***************************************************************************)

\* The state after construction, with the observer of a run chosen.
InitObserving(observer) == observe = observer /\ calc = NoCalc /\ Init

InitNone == InitObserving("none")
InitCalls == InitObserving("calls")
InitOrder == InitObserving("order")
InitPause == InitObserving("pause")
InitWords == InitObserving("words")
InitStop == InitObserving("stop")
InitChunks == InitObserving("chunks")
InitHalt == InitObserving("halt")

Spec == InitNone /\ [][Next]_vars
SpecCalls == InitCalls /\ [][Next]_vars
SpecOrder == InitOrder /\ [][Next]_vars
SpecPause == InitPause /\ [][Next]_vars
SpecWords == InitWords /\ [][Next]_vars
SpecStop == InitStop /\ [][Next]_vars
SpecChunks == InitChunks /\ [][Next]_vars

\* The statements of a control method that is being executed.
Returning ==
    \/ stop_flags \/ stop_clear \/ stop_sd
    \/ speak_stopped \/ speak_text \/ speak_flags \/ speak_preprocess
    \/ speak_playback \/ pause_is_paused \/ resume_is_paused

\* The engine observed for halts, with its threads scheduled fairly: a
\* method that was called returns, a started thread takes its next step,
\* the device plays its buffer to the end, and the clock of a sync loop
\* reaches the offset of the next word.
SpecHalt ==
    /\ InitHalt /\ [][Next]_vars
    /\ WF_vars(Returning)
    /\ WF_vars(audio_ends)
    /\ \A s \in Sessions :
          /\ WF_vars(Producer(s))
          /\ WF_vars(Consumer(s))
          /\ SF_vars(sync_word(s) /\ cons'[s].cwi # cons[s].cwi)

\* A call of the timing estimator.
InitTimings == observe = "none" /\ calc \in TimingCalls /\ Init
SpecTimings == InitTimings /\ [][estimate]_vars

\* A run of the sync loop of a chunk; the thread is scheduled fairly.
InitSync == observe = "none" /\ calc \in SyncCalls /\ Init
SpecSync == InitSync /\ [][sync_poll]_vars /\ WF_vars(sync_poll)

\* The word timings of a chunk text.
InitWordCount == observe = "none" /\ calc \in WordCountCalls /\ Init
SpecWordCount == InitWordCount /\ [][time_chunk_words]_vars

\* A call of the chunking of speak().
InitChunking == observe = "none" /\ calc \in ChunkingCalls /\ Init
SpecChunking == InitChunking /\ [][chunk_text]_vars

(***************************************************************************)
(* The events the properties speak of, as steps of the threads.            *)
(***************************************************************************)

\* Consumer s starts a chunk's audio on the device: sd.play returns.
starts_audio(s) == cons[s].pc = "sd_play" /\ cons'[s].pc = "sync"

\* Consumer s emits a word event: word_signal.emit(current_word_index).
emits_word(s) == cons[s].pc = "word" /\ cons'[s].cwi = cons[s].cwi + 1

\* Producer s puts a chunk's audio on the queue.
enqueues(s) == prod[s].pc = "tts" /\ Len(audio_queue') > Len(audio_queue)

\* A thread of session s enqueues audio, emits a word event, drives the
\* audio device or writes the engine's flags.
session_acts(s) ==
    \/ enqueues(s)
    \/ emits_word(s)
    \/ starts_audio(s)
    \/ cons'[s] # cons[s] /\ cons[s].pc \in {"sd_stop", "finally"}

(***************************************************************************)
(* Properties.                                                             *)
(***************************************************************************)

\* C1: in every session the chunks whose audio a consumer starts on the
\* device are started in increasing index order: a chunk is started only
\* when its index is higher than that of every chunk of its session
\* started before.
PlaysInIndexOrder ==
    [][\A s \in Sessions :
          (starts_audio(s) /\ cons[s].txt[1] = nsess)
             => cons[s].txt[2] > highest]_vars

\* C2: once a stop() called by the caller has returned, and until the next
\* speak(), the engine is Idle (is_playing and is_paused false) and
\* audio_queue is empty.
IdleAndEmptyAfterStop ==
    after_stop => ~is_playing /\ ~is_paused /\ audio_queue = <<>>

\* C3: once speak() has started the playback worker of a new session, no
\* thread of an earlier session enqueues audio, emits a word event, drives
\* the audio device or writes the engine's flags any more.
EarlierSessionsStopped ==
    [][\A s \in Sessions :
          (s < nsess /\ cons[nsess].pc # "none") => ~session_acts(s)]_vars

\* C4: after a stop() has returned, and until the next speak(), at most one
\* word event is emitted.
AtMostOneWordAfterStop == words_after_stop <= 1

\* C5: when a pause() called during the sync loop of chunk c has ended that
\* loop with words unfired, the next audio a consumer starts on the device
\* is that of chunk c again: the rest of the paused chunk is not discarded.
ResumeRestartsInterruptedChunk ==
    [][\A s \in Sessions :
          (starts_audio(s) /\ interrupted.left)
             => cons[s].txt = interrupted.txt]_vars

\* C6: in a session in which a synthesis call failed, the chunks that are
\* played are still started in increasing index order.
OthersInOrderAfterFailure ==
    [][\A s \in Sessions :
          (synth_failed /\ starts_audio(s) /\ cons[s].txt[1] = nsess)
             => highest < cons[s].txt[2]]_vars

\* C7: the word events of a session form runs, one per chunk played, that
\* are not interleaved: an event of index k > 0 directly follows the event
\* of index k - 1 of the same playback.
WordRunsNotInterleaved ==
    [][\A s \in Sessions :
          (emits_word(s) /\ cons[s].txt[1] = nsess)
             => \/ cons[s].cwi = 0
                \/ last_word.by = s /\ last_word.idx = cons[s].cwi - 1]_vars

\* C8: speak() with a blank text returns at once: it starts no thread, and
\* leaves the flags, the queue, the chunks and the device as they are.
BlankSpeakChangesNothing ==
    [][(ncalls' # ncalls /\ call' = "speak_blank")
          => UNCHANGED <<engine, device, caller, prod, cons, nsess>>]_vars

\* A blank speak() was the last call made on an Idle engine.
BlankSpeakOnIdle ==
    /\ call = "speak_blank" /\ caller.pc = "idle"
    /\ tts /\ ~is_playing /\ ~is_paused

\* C9: pause() writes the engine's state only in a Playing session, and
\* the session is Paused when it has.
PauseMakesPlayingPaused ==
    [][(caller.pc = "pause_is_paused" /\ caller'.pc = "idle")
          => is_playing /\ ~is_paused /\ is_playing' /\ is_paused']_vars

\* C10: resume() called in a state that is not Paused returns at once and
\* changes nothing; called in a Paused session its one write clears
\* is_paused and leaves everything else, so that the session is Playing.
ResumeOnlyWhenPaused ==
    [][/\ (ncalls' # ncalls /\ call' = "resume")
            => /\ UNCHANGED <<engine, device, prod, cons, nsess>>
               /\ caller' = IF is_playing /\ is_paused
                              THEN [pc |-> "resume_is_paused", ret |-> "idle", n |-> 0]
                              ELSE caller
       /\ (caller.pc = "resume_is_paused" /\ caller'.pc = "idle")
            => /\ ~is_paused'
               /\ UNCHANGED <<tts, is_playing, stopped, audio_queue,
                              text_chunks, current_text, current_chunk_index,
                              device, prod, cons, nsess>>]_vars

\* A resume() has made its write and the session is Playing.
ResumedFromPaused == call = "resumed" /\ is_playing /\ ~is_paused

\* C11: for a text of at least one word and a positive audio length the
\* estimator returns one offset per word; the first is 0, they are
\* non-decreasing in word order, and the last does not exceed
\* audio_length_samples / 22050.
TimingsMonotoneWithinDuration ==
    (calc.fn = "timings" /\ calc.done)
       => /\ Len(calc.out) = Len(calc.words)
          /\ calc.out[1] = Zero
          /\ \A i \in 1..(Len(calc.out) - 1) :
                ~RatLess(calc.out[i + 1], calc.out[i])
          /\ ~RatLess(Rat(calc.samples, sample_rate), calc.out[Len(calc.out)])

\* The estimator has returned distinct offsets for a text of several words.
TimingsEstimated ==
    /\ calc.fn = "timings" /\ calc.done
    /\ Len(calc.out) = MaxTimedWords
    /\ RatLess(calc.out[1], calc.out[2])

\* The tokens of the chunks, in index order.
RECURSIVE Concat(_)
Concat(chunks) ==
    IF chunks = <<>> THEN <<>> ELSE Head(chunks) \o Concat(Tail(chunks))

\* C12: the chunks of a text, concatenated in index order, are exactly the
\* whitespace-delimited tokens of the text: none is dropped, duplicated,
\* reordered or split.
ChunksKeepTokens ==
    (calc.fn = "chunks" /\ calc.done) => Concat(calc.out) = Tokens(calc.text)

\* A text has been cut into several chunks, one of them of several tokens.
TextCutInChunks ==
    /\ calc.fn = "chunks" /\ calc.done /\ calc.cut
    /\ Len(calc.out) >= 3
    /\ \E k \in DOMAIN calc.out : Len(calc.out[k]) >= 2

\* C13: every chunk but the last is maximal: with a space and the first
\* token of the next chunk it would be longer than max_chunk_size.
ChunksAreMaximal ==
    (calc.fn = "chunks" /\ calc.done /\ calc.cut)
       => \A k \in 1..(Len(calc.out) - 1) :
             joined_len(calc.out[k]) + 1 + calc.out[k + 1][1].len > max_chunk_size

\* The playback-completion wait of session s returns.
wait_returns(s) == cons[s].pc = "sd_wait" /\ cons'[s].pc = "halt_check"

\* C14: when a chunk is played and neither pause() nor stop() is called (the
\* only call of the run is the speak() of the session), every word of the
\* chunk has had its word event when the playback-completion wait returns.
EveryWordBeforeWaitReturns ==
    [][\A s \in Sessions :
          (ncalls = 1 /\ wait_returns(s)) => cons[s].cwi = Words]_vars

\* C15: once stop() has set stopped and emptied the queue, and until speak()
\* clears stopped, no producer enqueues audio: the chunk whose synthesis was
\* under way when stop() was called is not put on the emptied queue.
NoEnqueueAfterStopDrained ==
    [][\A s \in Sessions :
          (stopped /\ enqueues(s)) => caller.pc = "stop_clear"]_vars

\* A call of tts.tts() made by a worker of session s for `chunk` returns.
synthesis_returns(s, chunk) ==
    \/ prod[s].pc = "tts" /\ prod'[s].pc # "tts" /\ prod[s].txt = chunk
    \/ cons[s].pc = "tts" /\ cons'[s].pc # "tts" /\ cons[s].txt = chunk

\* C16: within a session tts.tts() is called at most once per chunk, by
\* either worker and whatever the outcome of the call.
SynthesizedAtMostOnce ==
    [][\A s \in Sessions : \A chunk \in synthesized :
          ~synthesis_returns(s, chunk)]_vars

\* C18 (its safety part): when a session in which nothing was stopped or
\* paused and the device did not fail has returned to Idle, with both its
\* workers terminated, every chunk for which a synthesis call returned
\* audio has been started on the device.
EndedSessionPlayedAll ==
    (/\ observe = "chunks" /\ ncalls = 1 /\ ~raised
     /\ cons[1].pc = "done" /\ prod[1].pc \in {"none", "done"} /\ ~is_playing)
       => succeeded \subseteq played

\* C20: once sd.play or sd.wait has raised for a chunk of a session, no
\* consumer starts the audio of a later chunk of that session.
NoPlayAfterDeviceFailure ==
    [][\A s \in Sessions : raised => ~starts_audio(s)]_vars

\* C17: once pause() has returned and the session is Paused, no consumer is
\* blocked in sd.wait() while the device plays the chunk out.
NeverWaitingWhilePaused ==
    (caller.pc = "idle" /\ is_playing /\ is_paused)
       => \A s \in Sessions : ~(cons[s].pc = "sd_wait" /\ device = cons[s].txt)

\* Every thread the engine started has terminated.
ThreadsDone ==
    \A s \in Sessions : /\ prod[s].pc \in {"none", "done"}
                        /\ cons[s].pc \in {"none", "done"}

\* C19: when stop() has returned while a playback worker is running, then,
\* unless speak() is called again, the workers eventually terminate and the
\* last operation on the audio device is a halt.
StopQuiesces ==
    (after_stop /\ \E s \in Sessions : cons[s].pc \notin {"none", "done"})
       ~> (~after_stop \/ (ThreadsDone /\ last_op = "halt"))

\* C21: the sync loop of a chunk terminates whatever its word timings are:
\* the poll at which the elapsed time exceeds the audio duration plus the
\* grace period leaves the loop, with words unfired or not, and every run
\* of the loop comes to its exit.
SyncLoopTerminates ==
    /\ [][(calc.fn = "sync"
            /\ calc'.elapsed_time > calc.audio_duration + GraceTicks)
           => calc'.pc = "exited"]_vars
    /\ <>(calc.fn = "sync" /\ calc.pc = "exited")

\* A sync loop has been left by the safety check with a word unfired.
SyncLoopAborted ==
    /\ calc.fn = "sync" /\ calc.pc = "exited"
    /\ calc.current_word_index < Len(calc.word_timings)
    /\ calc.elapsed_time > calc.audio_duration + GraceTicks

\* Consumer t has playback in progress: the device plays the chunk whose
\* sync loop or completion wait t is in.
playback_in_progress(t) ==
    cons[t].pc \in {"sync", "word", "sync_end", "sd_wait"} /\ device = cons[t].txt

\* C22: a consumer never starts audio on the device while another consumer
\* has playback in progress on it: at most one consumer at a time plays.
PlayNeverReplaces ==
    [][\A s \in Sessions : \A t \in Sessions \ {s} :
          starts_audio(s) => ~playback_in_progress(t)]_vars

\* C23: the number of word timings computed for a chunk is the number of
\* whitespace-delimited tokens of the chunk's text: preprocessing does not
\* change the word count.
WordCountKept ==
    (calc.fn = "words" /\ calc.done) => Len(calc.out) = Len(split(calc.text, 0))

\* C24: within a session in which nothing is paused or stopped and the
\* device does not fail, the audio of a chunk is started on the device at
\* most once.
StartedAtMostOnce ==
    [][\A s \in Sessions :
          (ncalls = 1 /\ ~raised /\ starts_audio(s))
             => cons[s].txt \notin played]_vars

\* C25: the audio a consumer takes from the queue and starts on the device
\* was not synthesized by the producer of an earlier session.
NoAudioOfEarlierSession ==
    [][\A s \in Sessions :
          (starts_audio(s) /\ cons[s].phase = 2) => cons[s].txt[1] >= s]_vars

\* C26: while the consumer of the session speak() began last is running and
\* no stop() has taken effect since that speak(), is_playing is true.
PlayingWhileConsumerRuns ==
    (nsess >= 1 /\ cons[Max(nsess, 1)].pc \notin {"none", "done"} /\ ~stopped)
       => is_playing

\* C27: no consumer starts the audio of a chunk on the device while the
\* session is Paused.
NoPlayWhilePaused ==
    [][\A s \in Sessions :
          starts_audio(s) => ~(is_playing /\ is_paused /\ caller.pc = "idle")]_vars

\* C28: whenever no control method is being executed, is_paused implies
\* is_playing and a consumer thread that has not finished.
PausedHasConsumer ==
    (caller.pc = "idle" /\ is_paused)
       => /\ is_playing
          /\ \E s \in Sessions : cons[s].pc \notin {"none", "done"}

\* C29: the producer and the consumer of a session are never both inside a
\* call of tts.tts().
OneSynthesisAtATime ==
    \A s \in Sessions : ~(prod[s].pc = "tts" /\ cons[s].pc = "tts")

\* C30: a chunk of a text is at most max_chunk_size characters long unless
\* it is a single token longer than that; such a token is a chunk of its
\* own and is not dropped.
ChunksWithinLimit ==
    (calc.fn = "chunks" /\ calc.done)
       => /\ \A k \in DOMAIN calc.out :
                \/ joined_len(calc.out[k]) <= max_chunk_size
                \/ Len(calc.out[k]) = 1 /\ calc.out[k][1].len > max_chunk_size
          /\ \A i \in DOMAIN calc.text :
                calc.text[i] > max_chunk_size
                   => \E k \in DOMAIN calc.out : calc.out[k] = <<Tokens(calc.text)[i]>>

\* A text has been cut with a token longer than max_chunk_size between
\* shorter ones.
OversizedTokenChunk ==
    /\ calc.fn = "chunks" /\ calc.done /\ calc.cut
    /\ \E k \in DOMAIN calc.out :
          /\ 1 < k /\ k < Len(calc.out)
          /\ joined_len(calc.out[k]) > max_chunk_size

====
